---------------------------- MODULE Spec2Model ----------------------------
(***************************************************************************)
(* Model of the lexical-analyzer front end: the chained hash table         *)
(* (hashtable.py), the two symbol tables (symboltables.py) and the         *)
(* tokenizer / classifier / PIF builder (lexicalanalyzer.py).              *)
(*                                                                         *)
(* A Python str is a sequence of one-character strings.  None is the value *)
(* None below; an empty chain (a bucket holding None) is the empty         *)
(* sequence, and a chain of Nodes is the sequence of its [key, value]      *)
(* records in next-pointer order.                                          *)
(***************************************************************************)
EXTENDS Integers, Sequences, FiniteSets, TLC

VARIABLES
    hashseed,        \* the interpreter's per-process string hash seed
    \* ---- a free-standing HashTable and its callers' view
    table,           \* HashTable.table: one chain per bucket
    shadow,          \* history: key -> value of the last put not followed by remove
    order,           \* history: present keys in order of their (last) insertion
    ret,             \* the last HashTable call: [op, key, value returned]
    \* ---- one tokenize call
    line,            \* the argument of the last tokenize call
    tokens,          \* what it returned
    tok_pc,          \* "call": tokenize is about to run on line; "done": it returned
    \* ---- one LexicalAnalyzer
    identifier_st,   \* LexicalAnalyzer.identifier_st.symbol_table.table
    constant_st,     \* LexicalAnalyzer.constant_st.symbol_table.table
    id_counter,      \* LexicalAnalyzer.id_counter
    const_counter,   \* LexicalAnalyzer.const_counter
    pif,             \* LexicalAnalyzer.pif
    errors,          \* the local list errors of the last analyze call, as it returned
    result,          \* what the last analyze call returned: <<pif, verdict>>
    history,         \* history: the argument of every analyze call, in call order
    fed,             \* history: vocabulary chunks passed to analyze so far
    id_log,          \* history: <<key, value>> of every add_identifier call
    const_log,       \* history: <<key, value>> of every add_constant call
    removed_ids,     \* history: identifiers removed and not interned again since
    removed_consts   \* history: constants removed and not interned again since

htvars  == <<table, shadow, order, ret>>
tokvars == <<line, tokens, tok_pc>>
lexvars == <<identifier_st, constant_st, id_counter, const_counter, pif, errors,
             result, history, fed, id_log, const_log, removed_ids, removed_consts>>
vars    == <<hashseed, htvars, tokvars, lexvars>>

(***************************************************************************)
(* Bounds of the model.                                                    *)
(***************************************************************************)
MaxSeed  == 1       \* hash seeds 0 .. MaxSeed
HashSpan == 64      \* string hashes range over HashSpan consecutive integers
MaxVal   == 1       \* put is called with values 0 .. MaxVal
MaxChunks == 5      \* a tokenize argument is made of at most MaxChunks chunks
MaxInput == 3       \* analyze is fed at most MaxInput chunks over all its calls

(***************************************************************************)
(* Characters and strings.                                                 *)
(***************************************************************************)
Chars == {"\n", " ", "\"", "%", "(", ")", "*", "+", ",", "-", "/",
          "0", "1", "2", "3", "4", "5", "6", "7", "8", "9", ";", "<", "=", ">", "?",
          "F", "G", "I", "N", "R", "S", "T", "X", "[", "]", "_",
          "a", "b", "c", "f", "g", "i", "n", "r", "s", "t", "x", "{", "}"}

\* The code point of each character the model uses.
CodePoint ==
    [c \in Chars |->
        CASE c = "\n" -> 10  [] c = " " -> 32   [] c = "\"" -> 34 [] c = "%" -> 37
          [] c = "(" -> 40   [] c = ")" -> 41   [] c = "*" -> 42  [] c = "+" -> 43
          [] c = "," -> 44   [] c = "-" -> 45   [] c = "/" -> 47
          [] c = "0" -> 48   [] c = "1" -> 49   [] c = "2" -> 50  [] c = "3" -> 51
          [] c = "4" -> 52   [] c = "5" -> 53   [] c = "6" -> 54  [] c = "7" -> 55
          [] c = "8" -> 56   [] c = "9" -> 57   [] c = ";" -> 59  [] c = "<" -> 60
          [] c = "=" -> 61   [] c = ">" -> 62   [] c = "?" -> 63
          [] c = "F" -> 70   [] c = "G" -> 71   [] c = "I" -> 73  [] c = "N" -> 78
          [] c = "R" -> 82   [] c = "S" -> 83   [] c = "T" -> 84  [] c = "X" -> 88
          [] c = "[" -> 91   [] c = "]" -> 93   [] c = "_" -> 95
          [] c = "a" -> 97   [] c = "b" -> 98   [] c = "c" -> 99  [] c = "f" -> 102
          [] c = "g" -> 103  [] c = "i" -> 105  [] c = "n" -> 110 [] c = "r" -> 114
          [] c = "s" -> 115  [] c = "t" -> 116  [] c = "x" -> 120
          [] c = "{" -> 123  [] c = "}" -> 125]

ord(c) == CodePoint[c]

\* chr(n), for the code points of Chars.
Chr == [n \in {CodePoint[c] : c \in Chars} |-> CHOOSE c \in Chars : CodePoint[c] = n]

isupper(c) == ord(c) >= 65 /\ ord(c) <= 90
islower(c) == ord(c) >= 97 /\ ord(c) <= 122
isalpha(c) == isupper(c) \/ islower(c)
isdigit(c) == ord(c) >= 48 /\ ord(c) <= 57
isspace(c) == (ord(c) >= 9 /\ ord(c) <= 13) \/ ord(c) = 32

\* str.lower of one character, and of a string.
lower_char(c) == IF isupper(c) THEN Chr[ord(c) + 32] ELSE c
lower(s) == [i \in 1..Len(s) |-> lower_char(s[i])]

\* str(n) for n >= 0.
RECURSIVE str(_)
str(n) == IF n < 10 THEN <<Chr[48 + n]>>
          ELSE str(n \div 10) \o <<Chr[48 + (n % 10)]>>

RECURSIVE Concat(_)
Concat(ss) == IF ss = <<>> THEN <<>> ELSE Head(ss) \o Concat(Tail(ss))

(***************************************************************************)
(* hashtable.py                                                            *)
(***************************************************************************)
None == -2

size == 2

Node(key, value) == [key |-> key, value |-> value]

\* hash(key) of a str: an arbitrary function of the text, fixed for the
\* lifetime of the process by the hash seed; it may be negative.
RECURSIVE hash_from(_, _)
hash_from(h, s) ==
    IF s = <<>> THEN h
    ELSE hash_from((h * 31 + ord(Head(s)) * (hashseed + 1)) % HashSpan, Tail(s))
hash(key) == hash_from(hashseed, key) - (HashSpan \div 2)

_hash(key) == hash(key) % size

\* The chain walk of put: overwrite the first node with an equal key, else
\* link a new node after the last one.
put_chain_nocheck(chain, key, value) == chain \o <<Node(key, value)>>
put_chain_front(chain, key, value) ==
    IF \E i \in 1..Len(chain) : chain[i].key = key
    THEN [i \in 1..Len(chain) |->
            IF chain[i].key = key THEN Node(key, value) ELSE chain[i]]
    ELSE <<Node(key, value)>> \o chain
RECURSIVE put_chain(_, _, _)
put_chain(chain, key, value) ==
    IF chain = <<>> THEN <<Node(key, value)>>
    ELSE IF Head(chain).key = key THEN <<Node(key, value)>> \o Tail(chain)
    ELSE <<Head(chain)>> \o put_chain(Tail(chain), key, value)

put(t, key, value) ==
    LET index == _hash(key) IN
    [t EXCEPT ![index + 1] = put_chain(t[index + 1], key, value)]

get_chain_first(chain, key) ==
    IF chain = <<>> THEN None ELSE Head(chain).value
RECURSIVE get_chain(_, _)
get_chain(chain, key) ==
    IF chain = <<>> THEN None
    ELSE IF Head(chain).key = key THEN Head(chain).value
    ELSE get_chain(Tail(chain), key)

get(t, key) == get_chain(t[_hash(key) + 1], key)

RECURSIVE remove_chain(_, _)
remove_chain(chain, key) ==
    IF chain = <<>> THEN <<>>
    ELSE IF Head(chain).key = key THEN Tail(chain)
    ELSE <<Head(chain)>> \o remove_chain(Tail(chain), key)

remove(t, key) ==
    LET index == _hash(key) IN
    [t EXCEPT ![index + 1] = remove_chain(t[index + 1], key)]

\* HashTable.__init__
NewTable == [i \in 1..size |-> <<>>]

\* HashTable.__str__, as the sequence of the pieces it concatenates.
RECURSIVE str_chain(_)
str_chain(chain) ==
    IF chain = <<>> THEN <<"None\n">>
    ELSE <<"(">> \o Head(chain).key \o <<", ">> \o str(Head(chain).value)
         \o <<") -> ">> \o str_chain(Tail(chain))
RECURSIVE str_from(_, _)
str_from(t, i) ==
    IF i > Len(t) THEN <<>>
    ELSE str(i - 1) \o <<": ">> \o str_chain(t[i]) \o str_from(t, i + 1)
__str__(t) == str_from(t, 1)

(***************************************************************************)
(* lexicalanalyzer.py: the vocabulary and the token shapes.                *)
(***************************************************************************)
reserved_words ==
    {<<"i","n","t">>, <<"s","t","r","i","n","g">>, <<"a","r","r","a","y">>,
     <<"f","o","r">>, <<"i","f">>, <<"e","l","s","e">>,
     <<"w","h","i","l","e">>, <<"i","n","p","u","t">>,
     <<"p","r","i","n","t">>, <<"l","e","t">>,
     <<"r","e","t","u","r","n">>}

operators ==
    {<<"+">>, <<"-">>, <<"*">>, <<"/">>, <<"%">>, <<"=">>, <<"<">>,
     <<"<", "=">>, <<"=", "=">>, <<"=", ">">>, <<">">>}

separators ==
    {<<"(">>, <<")">>, <<"[">>, <<"]">>, <<"{">>, <<"}">>, <<"?">>, <<",">>, <<";">>}

\* sorted(self.separators, key=len, reverse=True): the symbols all have
\* length 1, so the sort keeps the set's iteration order, whatever it is;
\* padding one symbol never touches another, so one order stands for all.
sorted_separators ==
    <<<<"(">>, <<")">>, <<"[">>, <<"]">>, <<"{">>, <<"}">>, <<"?">>, <<",">>, <<";">>>>

\* ^[a-zA-Z][a-zA-Z0-9]*$
identifier_regex(s) ==
    /\ Len(s) >= 1
    /\ isalpha(s[1])
    /\ \A i \in 2..Len(s) : isalpha(s[i]) \/ isdigit(s[i])

\* ^0$|^[+-]?[1-9][0-9]*$
integer_regex(s) ==
    \/ s = <<"0">>
    \/ LET d == IF Len(s) >= 1 /\ s[1] \in {"+", "-"} THEN Tail(s) ELSE s
       IN  /\ Len(d) >= 1
           /\ isdigit(d[1]) /\ d[1] # "0"
           /\ \A i \in 2..Len(d) : isdigit(d[i])

\* ^"[a-zA-Z0-9 ]*"$
string_regex(s) ==
    /\ Len(s) >= 2
    /\ s[1] = "\"" /\ s[Len(s)] = "\""
    /\ \A i \in 2..(Len(s) - 1) : isalpha(s[i]) \/ isdigit(s[i]) \/ s[i] = " "

(***************************************************************************)
(* str methods and re.finditer, as tokenize and analyze use them.          *)
(***************************************************************************)
\* The least index >= from at which c stands in s, or 0.
find(s, c, from) ==
    IF \E i \in from..Len(s) : s[i] = c
    THEN CHOOSE i \in from..Len(s) : s[i] = c /\ \A j \in from..(i - 1) : s[j] # c
    ELSE 0

\* [m.group() for m in re.finditer(r'"[^"]*"', s)]
RECURSIVE finditer_strings(_)
finditer_strings(s) ==
    LET i == find(s, "\"", 1)
        j == IF i = 0 THEN 0 ELSE find(s, "\"", i + 1)
    IN  IF j = 0 THEN <<>>
        ELSE <<SubSeq(s, i, j)>> \o finditer_strings(SubSeq(s, j + 1, Len(s)))

startswith(s, p) == Len(p) <= Len(s) /\ SubSeq(s, 1, Len(p)) = p

\* s.replace(old, new), old not empty: every occurrence, left to right.
RECURSIVE replace(_, _, _)
replace(s, old, new) ==
    IF s = <<>> THEN <<>>
    ELSE IF startswith(s, old)
         THEN new \o replace(SubSeq(s, Len(old) + 1, Len(s)), old, new)
         ELSE <<Head(s)>> \o replace(Tail(s), old, new)

\* s.split(): the maximal runs of non-whitespace characters.
RECURSIVE split(_)
split(s) ==
    IF s = <<>> THEN <<>>
    ELSE IF isspace(Head(s)) THEN split(Tail(s))
    ELSE LET e == IF \E i \in 1..Len(s) : isspace(s[i])
                  THEN (CHOOSE i \in 1..Len(s) :
                            isspace(s[i]) /\ \A j \in 1..(i - 1) : ~isspace(s[j])) - 1
                  ELSE Len(s)
         IN  <<SubSeq(s, 1, e)>> \o split(SubSeq(s, e + 1, Len(s)))

\* s.split(sep) for a one-character sep.
RECURSIVE split_on(_, _)
split_on(s, sep) ==
    LET i == find(s, sep, 1)
    IN  IF i = 0 THEN <<s>>
        ELSE <<SubSeq(s, 1, i - 1)>> \o split_on(SubSeq(s, i + 1, Len(s)), sep)

\* s.strip()
RECURSIVE strip(_)
strip(s) ==
    IF s = <<>> THEN <<>>
    ELSE IF isspace(Head(s)) THEN strip(Tail(s))
    ELSE IF isspace(s[Len(s)]) THEN strip(SubSeq(s, 1, Len(s) - 1))
    ELSE s

(***************************************************************************)
(* LexicalAnalyzer.tokenize                                                *)
(***************************************************************************)
\* f"STRING_{i}"
placeholder(i) == <<"S", "T", "R", "I", "N", "G", "_">> \o str(i)

\* The first loop: the i-th matched text is replaced by its placeholder
\* wherever it occurs in the line as rewritten so far.
RECURSIVE hide_strings(_, _, _)
hide_strings(l, strings, i) ==
    IF i > Len(strings) THEN l
    ELSE hide_strings(replace(l, strings[i], placeholder(i - 1)), strings, i + 1)

\* The second loop: a blank is put on both sides of every separator.
RECURSIVE pad_separators(_, _)
pad_separators(l, symbols) ==
    IF symbols = <<>> THEN l
    ELSE pad_separators(
            replace(l, Head(symbols), <<" ">> \o Head(symbols) \o <<" ">>),
            Tail(symbols))

\* The last loop: a token equal to the i-th placeholder becomes the i-th text.
RECURSIVE restore_strings(_, _, _)
restore_strings(toks, strings, i) ==
    IF i > Len(strings) THEN toks
    ELSE restore_strings(
            [j \in 1..Len(toks) |->
                IF toks[j] = placeholder(i - 1) THEN strings[i] ELSE toks[j]],
            strings, i + 1)

tokenize(l) ==
    LET strings == finditer_strings(l)
        hidden  == hide_strings(l, strings, 1)
        padded  == pad_separators(hidden, sorted_separators)
    IN  restore_strings(split(padded), strings, 1)

(***************************************************************************)
(* symboltables.py                                                         *)
(***************************************************************************)
add_identifier(st, identifier, value) == put(st, identifier, value)
get_identifier_value(st, identifier) == get(st, identifier)
remove_identifier(st, identifier) == remove(st, identifier)

add_constant(st, identifier, value) == put(st, identifier, value)
get_constant_value(st, identifier) == get(st, identifier)
remove_constant(st, identifier) == remove(st, identifier)

(***************************************************************************)
(* LexicalAnalyzer.is_identifier, is_constant and analyze                  *)
(***************************************************************************)
is_identifier(token) ==
    IF lower(token) \in reserved_words THEN FALSE ELSE identifier_regex(token)

is_constant(token) == integer_regex(token) \/ string_regex(token)

\* The token classes of the PIF that are not the token's own text.
IdentifierClass == <<"identifier">>
ConstantClass == <<"constant">>

\* Which branch of the if / elif cascade of analyze a token takes.
classify_shape_first(token) ==
    IF identifier_regex(token) THEN "identifier"
    ELSE IF lower(token) \in reserved_words THEN "reserved"
    ELSE IF token \in operators THEN "operator"
    ELSE IF token \in separators THEN "separator"
    ELSE IF is_constant(token) THEN "constant"
    ELSE "error"
classify(token) ==
    IF lower(token) \in reserved_words THEN "reserved"
    ELSE IF token \in operators THEN "operator"
    ELSE IF token \in separators THEN "separator"
    ELSE IF is_identifier(token) THEN "identifier"
    ELSE IF is_constant(token) THEN "constant"
    ELSE "error"

\* The body of the identifier branch and of the constant branch: put the
\* token under the counter's value if get finds nothing, then read its
\* position back.  st is the table, counter its counter, log the history of
\* the add calls; the result holds their new values and the position read.
intern_every_time(st, counter, log, token) ==
    LET st1 == put(st, token, counter)
    IN  [st |-> st1, counter |-> counter + 1,
         log |-> Append(log, <<token, counter>>), pos |-> get(st1, token)]
intern_counter_as_pos(st, counter, log, token) ==
    LET absent == get(st, token) = None
        st1    == IF absent THEN put(st, token, counter) ELSE st
        c1     == IF absent THEN counter + 1 ELSE counter
    IN  [st |-> st1, counter |-> c1,
         log |-> IF absent THEN Append(log, <<token, counter>>) ELSE log,
         pos |-> c1]
intern_by_table_length(st, counter, log, token) ==
    LET absent == get(st, token) = None
        n      == Len(st[1]) + Len(st[2])
        st1    == IF absent THEN put(st, token, n) ELSE st
    IN  [st |-> st1, counter |-> IF absent THEN counter + 1 ELSE counter,
         log |-> IF absent THEN Append(log, <<token, n>>) ELSE log,
         pos |-> get(st1, token)]
intern(st, counter, log, token) ==
    LET absent == get(st, token) = None
        st1    == IF absent THEN put(st, token, counter) ELSE st
    IN  [st |-> st1, counter |-> IF absent THEN counter + 1 ELSE counter,
         log |-> IF absent THEN Append(log, <<token, counter>>) ELSE log,
         pos |-> get(st1, token)]

\* f"Lexical error at line {line_number}: Invalid token '{token}'"
error_message(line_number, token) ==
    <<"Lexical error at line ">> \o str(line_number)
    \o <<": Invalid token '">> \o token \o <<"'">>

\* What analyze holds while it runs: the analyzer's fields and its local errors.
Self ==
    [identifier_st |-> identifier_st, constant_st |-> constant_st,
     id_counter |-> id_counter, const_counter |-> const_counter,
     pif |-> pif, errors |-> errors, id_log |-> id_log, const_log |-> const_log]

\* One pass of the loop over the tokens of a line.
scan_token(a, token, line_number) ==
    LET class == classify(token) IN
    IF class = "reserved" THEN [a EXCEPT !.pif = Append(@, <<lower(token), -1>>)]
    ELSE IF class = "operator" THEN [a EXCEPT !.pif = Append(@, <<token, -1>>)]
    ELSE IF class = "separator" THEN [a EXCEPT !.pif = Append(@, <<token, -1>>)]
    ELSE IF class = "identifier" THEN
        LET r == intern(a.identifier_st, a.id_counter, a.id_log, token)
        IN  [a EXCEPT !.identifier_st = r.st, !.id_counter = r.counter,
                      !.id_log = r.log, !.pif = Append(@, <<IdentifierClass, r.pos>>)]
    ELSE IF class = "constant" THEN
        LET r == intern(a.constant_st, a.const_counter, a.const_log, token)
        IN  [a EXCEPT !.constant_st = r.st, !.const_counter = r.counter,
                      !.const_log = r.log, !.pif = Append(@, <<ConstantClass, r.pos>>)]
    ELSE [a EXCEPT !.errors = Append(@, error_message(line_number, token))]

\* The loop over the tokens of one line.
RECURSIVE scan_tokens_until_error(_, _, _)
scan_tokens_until_error(a, toks, line_number) ==
    IF toks = <<>> \/ a.errors # <<>> THEN a
    ELSE scan_tokens_until_error(scan_token(a, Head(toks), line_number),
                                 Tail(toks), line_number)
RECURSIVE scan_tokens(_, _, _)
scan_tokens(a, toks, line_number) ==
    IF toks = <<>> THEN a
    ELSE scan_tokens(scan_token(a, Head(toks), line_number), Tail(toks), line_number)

\* The loop over the lines; line_number is its value before the line.
RECURSIVE scan_lines(_, _, _)
scan_lines(a, lines, line_number) ==
    IF lines = <<>> THEN a
    ELSE LET l == strip(Head(lines))
             a1 == IF l = <<>> THEN a
                   ELSE scan_tokens(a, tokenize(l), line_number + 1)
         IN  scan_lines(a1, Tail(lines), line_number + 1)

\* "\n".join(errs)
RECURSIVE join_lines(_)
join_lines(errs) ==
    IF errs = <<>> THEN <<>>
    ELSE IF Len(errs) = 1 THEN errs[1]
    ELSE errs[1] \o <<"\n">> \o join_lines(Tail(errs))

\* The second element of the pair analyze returns.
verdict_always_correct(errs) == <<"Lexically correct">>
verdict(errs) ==
    IF errs # <<>> THEN join_lines(errs) ELSE <<"Lexically correct">>

\* analyze(code) on an analyzer in state a: the state it leaves.
analyze(a, c) ==
    scan_lines([a EXCEPT !.pif = <<>>, !.errors = <<>>], split_on(c, "\n"), 0)

(***************************************************************************)
(* The objects as constructed.                                             *)
(***************************************************************************)
HTKeys == {<<"a">>, <<"b">>, <<"c">>}

Constructed ==
    /\ hashseed \in 0..MaxSeed
    /\ table = NewTable
    /\ shadow = [k \in HTKeys |-> None]
    /\ order = <<>>
    /\ ret = [op |-> "init", key |-> <<>>, value |-> None]
    /\ tokens = <<>>
    /\ identifier_st = NewTable
    /\ constant_st = NewTable
    /\ id_counter = 0
    /\ const_counter = 0
    /\ pif = <<>>
    /\ errors = <<>>
    /\ result = <<>>
    /\ history = <<>>
    /\ fed = 0
    /\ id_log = <<>>
    /\ const_log = <<>>
    /\ removed_ids = {}
    /\ removed_consts = {}

Init == Constructed /\ line = <<>> /\ tok_pc = "done"

(***************************************************************************)
(* Calls on a free-standing HashTable.                                     *)
(***************************************************************************)
HTPut(k, v) ==
    /\ table' = put(table, k, v)
    /\ shadow' = [shadow EXCEPT ![k] = v]
    /\ order' = IF shadow[k] = None THEN Append(order, k) ELSE order
    /\ ret' = [op |-> "put", key |-> k, value |-> None]
    /\ UNCHANGED <<hashseed, tokvars, lexvars>>

HTGet(k) ==
    /\ ret' = [op |-> "get", key |-> k, value |-> get(table, k)]
    /\ UNCHANGED <<hashseed, table, shadow, order, tokvars, lexvars>>

HTRemove(k) ==
    /\ table' = remove(table, k)
    /\ shadow' = [shadow EXCEPT ![k] = None]
    /\ order' = SelectSeq(order, LAMBDA x : x # k)
    /\ ret' = [op |-> "remove", key |-> k, value |-> None]
    /\ UNCHANGED <<hashseed, tokvars, lexvars>>

NextHT ==
    \/ \E k \in HTKeys, v \in 0..MaxVal : HTPut(k, v)
    \/ \E k \in HTKeys : HTGet(k)
    \/ \E k \in HTKeys : HTRemove(k)

SpecHT == Init /\ [][NextHT]_vars

(* C1: the table is a key-to-value map.  For every key, get returns the    *)
(* value of the most recent put not followed by a remove, and None for a   *)
(* key never put or last removed; a get that has just returned gave that   *)
(* value, never the value of another key of the chain.                     *)
C1_GetIsLastPut ==
    /\ \A k \in HTKeys : get(table, k) = shadow[k]
    /\ ret.op = "get" => ret.value = shadow[ret.key]

\* A get has just found the second node of a chain whose first node holds
\* another value, and a get of a removed key is answered None.
C1_Witness ==
    /\ ret.op = "get"
    /\ \E i \in 1..size :
        /\ Len(table[i]) >= 2
        /\ table[i][2].key = ret.key
        /\ table[i][1].value # table[i][2].value
        /\ ret.value = table[i][2].value
    /\ \E k \in HTKeys : shadow[k] = None /\ _hash(k) = _hash(ret.key)

(* C2: no two entries of the table have the same key, every entry sits in  *)
(* bucket hash(key) mod capacity, and the table keeps its two buckets.     *)
C2_UniqueKeysInPlace ==
    /\ Len(table) = size
    /\ \A i \in 1..Len(table) : \A j \in 1..Len(table[i]) :
        /\ _hash(table[i][j].key) = i - 1
        /\ \A i2 \in 1..Len(table) : \A j2 \in 1..Len(table[i2]) :
            table[i][j].key = table[i2][j2].key => (i = i2 /\ j = j2)

\* Both buckets hold entries, one of them a chain of two, after a put of a
\* key that was present.
C2_Witness ==
    /\ \E i \in 1..size : Len(table[i]) = 2
    /\ \E i \in 1..size : Len(table[i]) = 1
    /\ ret.op = "put" /\ Len(order) = 3 /\ order[3] # ret.key

\* What the callers expect bucket i to hold: the present keys of the bucket
\* in insertion order, each with its current value.
ExpectedChain(i) ==
    LET ks == SelectSeq(order, LAMBDA k : _hash(k) = i - 1)
    IN  [j \in 1..Len(ks) |-> Node(ks[j], shadow[ks[j]])]

ExpectedDump ==
    Concat([i \in 1..size |->
        str(i - 1) \o <<": ">>
        \o Concat([j \in 1..Len(ExpectedChain(i)) |->
              <<"(">> \o ExpectedChain(i)[j].key \o <<", ">>
              \o str(ExpectedChain(i)[j].value) \o <<") -> ">>])
        \o <<"None\n">>])

(* C9: each chain lists the present keys of its bucket in the order of     *)
(* their (last) insertion with their current values: a new key is appended *)
(* at the tail, an overwrite does not move the entry, a remove unlinks     *)
(* only the matching entry and a remove of an absent key changes nothing;  *)
(* the dump lists the buckets in ascending index, each chain in that order.*)
C9_ChainIsInsertionOrder ==
    /\ \A i \in 1..size : table[i] = ExpectedChain(i)
    /\ __str__(table) = ExpectedDump

\* A chain of two whose keys stand in the reverse of their first insertion,
\* the older one having been removed and put again; the last call removed
\* a key that was absent.
C9_Witness ==
    /\ \E i \in 1..size :
        /\ Len(table[i]) = 2
        /\ table[i][1].key = <<"c">> /\ table[i][2].key = <<"a">>
        /\ table[i][1].value # table[i][2].value
    /\ ret.op = "remove" /\ ret.key = <<"b">>
    /\ Len(order) = 2


(***************************************************************************)
(* tokenize as a function of its argument.                                 *)
(***************************************************************************)
TokVocabulary ==
    {<<"\"">>, <<" ">>, <<";">>, <<"a">>, <<"S", "T", "R", "I", "N", "G", "_", "0">>}

\* Every concatenation of at most n chunks of the vocabulary V.
RECURSIVE Texts(_, _)
Texts(V, n) ==
    IF n = 0 THEN {<<>>}
    ELSE LET shorter == Texts(V, n - 1)
         IN  shorter \cup {t \o c : t \in shorter, c \in V}

Lines == Texts(TokVocabulary, MaxChunks)

InitTok == Constructed /\ line \in Lines /\ tok_pc = "call"

Tokenize ==
    /\ tok_pc = "call"
    /\ tokens' = tokenize(line)
    /\ tok_pc' = "done"
    /\ UNCHANGED <<hashseed, line, htvars, lexvars>>

NextTok == Tokenize

SpecTok == InitTok /\ [][NextTok]_vars

\* The tokens of a line as the text itself gives them: a string literal
\* from a quote to the next quote, a separator, or a maximal run of the
\* other non-whitespace characters.
LiteralEnd(s) == IF s # <<>> /\ Head(s) = "\"" THEN find(s, "\"", 2) ELSE 0

RECURSIVE RunEnd(_, _)
RunEnd(s, i) ==
    IF i > Len(s) THEN Len(s)
    ELSE IF isspace(s[i]) \/ <<s[i]>> \in separators
            \/ LiteralEnd(SubSeq(s, i, Len(s))) # 0
         THEN i - 1
         ELSE RunEnd(s, i + 1)

RECURSIVE TextTokens(_)
TextTokens(s) ==
    IF s = <<>> THEN <<>>
    ELSE IF isspace(Head(s)) THEN TextTokens(Tail(s))
    ELSE LET e == IF LiteralEnd(s) # 0 THEN LiteralEnd(s)
                  ELSE IF <<Head(s)>> \in separators THEN 1
                  ELSE RunEnd(s, 2)
         IN  <<SubSeq(s, 1, e)>> \o TextTokens(SubSeq(s, e + 1, Len(s)))

(* C6: tokenize neither loses nor invents text.  Every string literal of   *)
(* the line comes back as one token equal to its text, every other token   *)
(* is a single separator or a maximal run of non-whitespace, non-separator *)
(* characters, and the tokens concatenated are the line without the        *)
(* whitespace outside literals; no placeholder reaches the caller.         *)
C6_TokenizeKeepsText ==
    tok_pc = "done" => tokens = TextTokens(line)


(***************************************************************************)
(* Calls on one LexicalAnalyzer.                                           *)
(***************************************************************************)
LexVocabulary ==
    {<<"I", "f">>, <<"x">>, <<"X">>, <<"5">>, <<"+">>, <<";">>, <<"\"">>,
     <<" ">>, <<"\n">>}

\* The texts made of exactly n chunks of the vocabulary.
Codes == [n \in 0..MaxInput |-> Texts(LexVocabulary, n) \ (IF n = 0 THEN {} ELSE Texts(LexVocabulary, n - 1))]

Analyze(c, n) ==
    \E a \in {analyze(Self, c)} :
    /\ identifier_st' = a.identifier_st
    /\ constant_st' = a.constant_st
    /\ id_counter' = a.id_counter
    /\ const_counter' = a.const_counter
    /\ pif' = a.pif
    /\ errors' = a.errors
    /\ result' = <<a.pif, verdict(a.errors)>>
    /\ id_log' = a.id_log
    /\ const_log' = a.const_log
    /\ history' = Append(history, c)
    /\ fed' = fed + n
    /\ removed_ids' = removed_ids \ {a.id_log[i][1] : i \in (Len(id_log) + 1)..Len(a.id_log)}
    /\ removed_consts' =
          removed_consts \ {a.const_log[i][1] : i \in (Len(const_log) + 1)..Len(a.const_log)}
    /\ UNCHANGED <<hashseed, htvars, tokvars>>

Next ==
    \E n \in 1..(MaxInput - fed) : \E c \in Codes[n] : Analyze(c, n)

Spec == Init /\ [][Next]_vars

RemoveIdentifier(k) ==
    /\ identifier_st' = remove_identifier(identifier_st, k)
    /\ removed_ids' = removed_ids \cup {k}
    /\ UNCHANGED <<hashseed, htvars, tokvars, constant_st, id_counter, const_counter,
                   pif, errors, result, history, fed, id_log, const_log,
                   removed_consts>>

RemoveConstant(k) ==
    /\ constant_st' = remove_constant(constant_st, k)
    /\ removed_consts' = removed_consts \cup {k}
    /\ UNCHANGED <<hashseed, htvars, tokvars, identifier_st, id_counter, const_counter,
                   pif, errors, result, history, fed, id_log, const_log,
                   removed_ids>>

\* The keys a log of add calls names.
Logged(log) == {log[i][1] : i \in 1..Len(log)}

NextRm ==
    \/ \E n \in 1..(MaxInput - fed) : \E c \in Codes[n] : Analyze(c, n)
    \/ \E k \in Logged(id_log) : RemoveIdentifier(k)
    \/ \E k \in Logged(const_log) : RemoveConstant(k)

SpecRm == Init /\ [][NextRm]_vars

(***************************************************************************)
(* What a source text holds, read off the text.                            *)
(***************************************************************************)
\* <<line number, token>> of every token of text c, in source order; lines
\* are numbered from 1 and blank lines count.
LineTokens ==
    [l \in Texts(LexVocabulary \ {<<"\n">>}, MaxInput) |-> tokenize(strip(l))]

SourceTokens(c) ==
    LET ls == split_on(c, "\n")
    IN  Concat([i \in 1..Len(ls) |->
            [j \in 1..Len(LineTokens[ls[i]]) |-> <<i, LineTokens[ls[i]][j]>>]])

IsReserved(t)   == lower(t) \in reserved_words
IsSymbol(t)     == t \in operators \/ t \in separators
IsIdentifier(t) == identifier_regex(t) /\ ~IsReserved(t)
IsConstant(t)   == ~IsReserved(t) /\ ~IsSymbol(t) /\ ~IsIdentifier(t)
                   /\ (integer_regex(t) \/ string_regex(t))
IsValid(t)      == IsReserved(t) \/ IsSymbol(t) \/ identifier_regex(t)
                   \/ integer_regex(t) \/ string_regex(t)

Called   == history # <<>>
LastCode == history[Len(history)]
LastTokens == SourceTokens(LastCode)
ValidOf(ts)   == SelectSeq(ts, LAMBDA p : IsValid(p[2]))
InvalidOf(ts) == SelectSeq(ts, LAMBDA p : ~IsValid(p[2]))
Good == ValidOf(LastTokens)
Bad  == InvalidOf(LastTokens)

\* The tokens of every call so far, in order.
AllTokens ==
    Concat([n \in 1..Len(history) |->
        LET ts == SourceTokens(history[n]) IN [j \in 1..Len(ts) |-> ts[j][2]]])

\* A sequence without its repetitions: first occurrences, in order.
RECURSIVE FirstSeen(_)
FirstSeen(s) ==
    IF s = <<>> THEN <<>>
    ELSE LET d == FirstSeen(SubSeq(s, 1, Len(s) - 1))
         IN  IF \E i \in 1..Len(d) : d[i] = s[Len(s)] THEN d ELSE Append(d, s[Len(s)])

IndexOf(s, x) == CHOOSE i \in 1..Len(s) : s[i] = x

IdentifiersOf(ts) == FirstSeen(SelectSeq(ts, IsIdentifier))
ConstantsOf(ts)   == FirstSeen(SelectSeq(ts, IsConstant))
Identifiers == IdentifiersOf(AllTokens)

\* The places <<bucket, position>> of the entries of table t, and its keys.
Entries(t) == UNION {{<<i, j>> : j \in 1..Len(t[i])} : i \in 1..Len(t)}
Keys(t) == {t[e[1]][e[2]].key : e \in Entries(t)}

InternedInOrder(st, log, firsts) ==
    /\ \A i \in 1..Len(firsts) : get(st, firsts[i]) = i - 1
    /\ Cardinality(Keys(st)) = Len(firsts)
    /\ log = [i \in 1..Len(firsts) |-> <<firsts[i], i - 1>>]

(* C3: with no remove, a lexeme keeps the position of its first            *)
(* occurrence: the first distinct identifier (constant) gets 0, each       *)
(* further distinct one the next integer in first-seen order, no position  *)
(* goes to two lexemes, every later occurrence gets the same position in   *)
(* the PIF, and the table holds as many keys as there are distinct         *)
(* case-sensitive spellings among the tokens.                              *)
C3_FirstSeenPositions ==
    \A all \in {AllTokens} :
    \A ids \in {IdentifiersOf(all)} : \A cs \in {ConstantsOf(all)} :
    /\ InternedInOrder(identifier_st, id_log, ids)
    /\ InternedInOrder(constant_st, const_log, cs)
    /\ Called =>
        \A good \in {Good} :
        /\ Len(pif) = Len(good)
        /\ \A k \in 1..Len(good) :
            /\ IsIdentifier(good[k][2]) =>
                   pif[k] = <<IdentifierClass, IndexOf(ids, good[k][2]) - 1>>
            /\ IsConstant(good[k][2]) =>
                   pif[k] = <<ConstantClass, IndexOf(cs, good[k][2]) - 1>>

\* Two spellings that differ in case only hold positions 0 and 1, and the
\* last call met again an identifier an earlier call had interned.
C3_Witness ==
    /\ Len(history) = 3
    /\ \E k \in 1..Len(pif) : pif[k] = <<IdentifierClass, 0>>
    /\ \A ids \in {Identifiers} :
        /\ Len(ids) = 2
        /\ lower(ids[1]) = lower(ids[2])
        /\ SourceTokens(history[1]) = <<<<1, ids[1]>>>>

\* The value the last add call for key k passed.
LastLogged(log, k) ==
    log[CHOOSE i \in 1..Len(log) :
            log[i][1] = k /\ \A j \in (i + 1)..Len(log) : log[j][1] # k][2]

RemoveIsForgetting(st, counter, log, gone) ==
    /\ counter = Len(log)
    /\ \A i \in 1..Len(log) : log[i][2] = i - 1
    /\ \A k \in gone : get(st, k) = None
    /\ \A k \in Logged(log) \ gone : get(st, k) = LastLogged(log, k)

(* C4: a lexeme removed from a symbol table is absent until it is interned *)
(* again, and the re-intern gives it a new position greater than every     *)
(* position handed out before: the i-th add call of a table passes         *)
(* position i - 1, so no position is handed out twice.                     *)
C4_RemoveThenIntern ==
    /\ RemoveIsForgetting(identifier_st, id_counter, id_log, removed_ids)
    /\ RemoveIsForgetting(constant_st, const_counter, const_log, removed_consts)

\* An identifier was interned at 0, removed, and interned again at 2 after
\* another identifier had taken 1.
C4_Witness ==
    /\ Len(id_log) = 3
    /\ id_log[1][1] = id_log[3][1]
    /\ id_log[2][1] # id_log[1][1]
    /\ get_identifier_value(identifier_st, id_log[1][1]) = 2
    /\ removed_ids = {}

ExpectedMessage(p) ==
    <<"Lexical error at line ">> \o str(p[1]) \o <<": Invalid token '">> \o p[2]
    \o <<"'">>

ExpectedClass(t) ==
    IF IsReserved(t) THEN lower(t)
    ELSE IF IsSymbol(t) THEN t
    ELSE IF IsIdentifier(t) THEN IdentifierClass
    ELSE ConstantClass

(* C5: analyze never stops at an invalid token.  Each token gives one PIF  *)
(* entry or one error message, so their counts add up to the number of     *)
(* tokens; the k-th message names the line (blank lines counted) and the   *)
(* text of the k-th invalid token; the k-th PIF entry is that of the k-th  *)
(* valid token, also after an invalid one.                                 *)
C5_OneOutcomePerToken ==
    Called =>
        \A all \in {LastTokens} :
        \A good \in {ValidOf(all)} : \A bad \in {InvalidOf(all)} :
        /\ Len(pif) + Len(errors) = Len(all)
        /\ errors = [k \in 1..Len(bad) |-> ExpectedMessage(bad[k])]
        /\ Len(pif) = Len(good)
        /\ \A k \in 1..Len(good) : pif[k][1] = ExpectedClass(good[k][2])

\* An invalid token on line 2, after a blank line, is followed on its line
\* by a valid token, which is in the PIF.
C5_Witness ==
    /\ Called
    /\ Len(pif) = 1 /\ Len(errors) = 1
    /\ \A all \in {LastTokens} :
        /\ Len(all) = 2
        /\ all[1][1] = 2 /\ ~IsValid(all[1][2])
        /\ all[2][1] = 2 /\ IsValid(all[2][2])

(* C7: a token that equals a reserved word up to case gives the PIF entry  *)
(* (lower-cased word, -1), never an identifier entry, and neither adds a   *)
(* key to the identifier table nor advances the identifier counter.        *)
C7_ReservedWordFirst ==
    /\ \A k \in Keys(identifier_st) : ~IsReserved(k)
    /\ \A all \in {AllTokens} :
         id_counter = Cardinality({all[i] : i \in {j \in 1..Len(all) :
                                      IsIdentifier(all[j])}})
    /\ Called =>
        \A good \in {Good} : \A k \in 1..Len(good) :
            IsReserved(good[k][2]) =>
                k <= Len(pif) /\ pif[k] = <<lower(good[k][2]), -1>>

\* The reserved word was written If, next to an identifier.
C7_Witness ==
    /\ Called
    /\ id_counter = 1
    /\ Len(pif) = 2
    /\ \A good \in {Good} :
        /\ \E k \in 1..Len(good) :
            /\ good[k][2] = <<"I", "f">>
            /\ pif[k] = <<<<"i", "f">>, -1>>
        /\ \E k \in 1..Len(good) : IsIdentifier(good[k][2])

ExpectedVerdict(bad) ==
    IF bad = <<>> THEN <<"Lexically correct">>
    ELSE Concat([k \in 1..Len(bad) |->
            IF k = 1 THEN ExpectedMessage(bad[k])
            ELSE <<"\n">> \o ExpectedMessage(bad[k])])

(* C8: the verdict is "Lexically correct" exactly when no token of the     *)
(* source is invalid, else the error messages joined by newlines in order  *)
(* of occurrence; the PIF is returned in both cases.                       *)
C8_Verdict ==
    Called =>
        \A bad \in {Bad} :
        /\ result[1] = pif
        /\ (result[2] = <<"Lexically correct">>) <=> (bad = <<>>)
        /\ result[2] = ExpectedVerdict(bad)

\* Two invalid tokens on two lines: two messages joined by a newline.
C8_Witness ==
    /\ Called
    /\ Len(errors) = 2
    /\ \A bad \in {Bad} :
        /\ Len(bad) = 2 /\ bad[1][1] # bad[2][1]
        /\ result[2] = ExpectedMessage(bad[1]) \o <<"\n">> \o ExpectedMessage(bad[2])

CounterValues(st, counter) ==
    /\ Cardinality(Entries(st)) = counter
    /\ \A v \in 0..(counter - 1) :
         Cardinality({e \in Entries(st) : st[e[1]][e[2]].value = v}) = 1

(* C10: with no remove, the identifier table stores exactly the values     *)
(* 0 .. id_counter - 1, each under one key (the constant table likewise    *)
(* with const_counter); every identifier or constant entry of the PIF      *)
(* refers to the value its table stores for the token, and every reserved  *)
(* word, operator and separator entry has reference -1.                    *)
C10_CountersAndReferences ==
    /\ CounterValues(identifier_st, id_counter)
    /\ CounterValues(constant_st, const_counter)
    /\ Called =>
        \A good \in {Good} :
        /\ Len(pif) = Len(good)
        /\ \A k \in 1..Len(good) :
            IF pif[k][1] = IdentifierClass
            THEN pif[k][2] # None
                 /\ pif[k][2] = get_identifier_value(identifier_st, good[k][2])
            ELSE IF pif[k][1] = ConstantClass
            THEN pif[k][2] # None
                 /\ pif[k][2] = get_constant_value(constant_st, good[k][2])
            ELSE pif[k][2] = -1

\* The PIF of a later call refers to an identifier at position 1 beside a
\* symbol, and both tables hold entries.
C10_Witness ==
    /\ Len(history) >= 2
    /\ \E k \in 1..Len(pif) : pif[k] = <<IdentifierClass, 1>>
    /\ \E k \in 1..Len(pif) : pif[k][2] = -1

=============================================================================
